---- MODULE Spec2Model ----
(***************************************************************************)
(* Cache-aside subsystem of the collaborative playlist backend:            *)
(*   - CacheService (services/cacheService.js): connection state, metrics, *)
(*     get / set / del / invalidate / exists / flush over a Redis store;   *)
(*   - the playlist controllers that call it (getPlaylists, createPlaylist,*)
(*     getPlaylistById, updatePlaylist, deletePlaylist);                   *)
(*   - cacheMiddleware and invalidateCache (middleware/cache.js).          *)
(***************************************************************************)
EXTENDS Integers, Sequences, FiniteSets, TLC

VARIABLES
  client,        \* this.client: FALSE = null, TRUE = a redis client object
  sock,          \* the client's socket: "none", "connecting", "ready", "closed"
  isConnected,   \* this.isConnected
  retryAttempts, \* this.retryAttempts
  metrics,       \* this.metrics: hits, misses, sets, deletes, errors
  store,         \* the Redis keyspace: key -> [text, exp]
  now,           \* wall clock of the store, in seconds
  call,          \* the last CacheService operation and what it returned
  db,            \* the primary store: playlist id -> document (or missing)
  resp,          \* the last HTTP response of a controller
  mw,            \* the last request that went through a middleware
  pending,       \* the request whose handler is suspended at an await
  inflight       \* service calls of concurrent callers that await the store,
                 \* and how many calls have returned what

vars == <<client, sock, isConnected, retryAttempts, metrics, store, now, call, db, resp, mw, pending, inflight>>

-----------------------------------------------------------------------------
(* Bounds *)

MaxOps == 3         \* the counters of metrics add up to at most this before a step
MaxTime == 600      \* the clock stops here
MaxRetry == 2       \* retryAttempts stays below this
MaxAttempts == 12   \* the same where only the connection is followed

-----------------------------------------------------------------------------
(* JavaScript values *)

Null == [ty |-> "null"]
Undefined == [ty |-> "undefined"]
Circular == [ty |-> "circular"]      \* an object that refers to itself
JBool(b) == [ty |-> "boolean", b |-> b]
JNum(n) == [ty |-> "number", n |-> n]
JStr(s) == [ty |-> "string", s |-> s]
JObj(d) == [ty |-> "object", doc |-> d]
JArr(ds) == [ty |-> "array", docs |-> ds]

\* ToBoolean of the language: what `if (x)` tests
Truthy(v) ==
  CASE v.ty = "null" -> FALSE
    [] v.ty = "undefined" -> FALSE
    [] v.ty = "boolean" -> v.b
    [] v.ty = "number" -> v.n # 0
    [] v.ty = "string" -> v.s # ""
    [] OTHER -> TRUE

\* JSON.stringify: the text, or a throw on a circular structure;
\* undefined has no JSON text (the result is undefined, not a string)
StringifyThrows(v) == v.ty = "circular"

Stringify(v) ==
  CASE v.ty = "null" -> [lit |-> "null"]
    [] v.ty = "boolean" -> [lit |-> IF v.b THEN "true" ELSE "false"]
    [] v.ty = "number" -> [lit |-> IF v.n = 0 THEN "0" ELSE "1"]
    [] v.ty = "string" -> [lit |-> IF v.s = "" THEN "\"\"" ELSE "\"a\""]
    [] v.ty = "object" -> [lit |-> "{}", doc |-> v.doc]
    [] v.ty = "array" -> [lit |-> "[]", docs |-> v.docs]
    [] OTHER -> [lit |-> ""]

\* a text written by another program that is not JSON
Garbage == [lit |-> "{oops"]
\* what GET answers for a key that is not there (null)
NoText == [lit |-> ""]

\* a test that also takes the texts of falsy values for nothing
TextTruthyOfValue(t) == t.lit \notin {"", "null", "false", "0", "\"\""}

\* `if (data)` on what GET answered: null and "" are falsy
TextTruthy(t) == t.lit # ""

\* JSON.parse
ParseThrows(t) == t.lit \notin {"null", "true", "false", "0", "1", "\"\"", "\"a\"", "{}", "[]"}

Parse(t) ==
  CASE t.lit = "null" -> Null
    [] t.lit = "true" -> JBool(TRUE)
    [] t.lit = "false" -> JBool(FALSE)
    [] t.lit = "0" -> JNum(0)
    [] t.lit = "1" -> JNum(1)
    [] t.lit = "\"\"" -> JStr("")
    [] t.lit = "\"a\"" -> JStr("a")
    [] t.lit = "{}" -> JObj(t.doc)
    [] t.lit = "[]" -> JArr(t.docs)
    [] OTHER -> Undefined

-----------------------------------------------------------------------------
(* Domain: users, playlists *)

Users == {"u1", "u2"}
Pids == {"p1"}
OtherPids == {"p2"}     \* a playlist of another instance, known here by its cache keys only
Names == {"Road Trip", "Summer Mix"}

\* a playlist document with creator, collaborators and songs populated; a
\* new document has no songs
Doc(id, name, creator, collabs, isPublic) ==
  [id |-> id, name |-> name, creator |-> creator, collabs |-> collabs, isPublic |-> isPublic,
   songs |-> {}]

Missing == [id |-> "none", name |-> "", creator |-> "", collabs |-> {}, isPublic |-> FALSE,
            songs |-> {}]

Songs == {"s1"}

-----------------------------------------------------------------------------
(* Strings that are built or matched piece by piece.  A key is a string;   *)
(* Tokens gives its pieces (":" and "*" are pieces of their own), and Key  *)
(* is the concatenation of pieces.                                         *)

RECURSIVE Join(_)
Join(seq) == IF seq = <<>> THEN "" ELSE Head(seq) \o Join(Tail(seq))

Paths == {"/api/a"}
Queries == {<<>>}

\* JSON.stringify(req.query): the parameters in the order of the object
RECURSIVE QueryMembers(_)
QueryMembers(q) ==
  IF q = <<>> THEN ""
  ELSE "\"" \o Head(q)[1] \o "\":\"" \o Head(q)[2] \o "\""
       \o (IF Tail(q) = <<>> THEN "" ELSE ",") \o QueryMembers(Tail(q))

QueryJson(q) == "{" \o QueryMembers(q) \o "}"

\* requests that differ in path, in a parameter value, or only in the order
\* of their parameters: the route path, req.originalUrl (which carries the
\* query string as it was sent) and req.query (in the order of the string)
Probes ==
  {[path |-> "/api/a", url |-> "/api/a", query |-> <<>>],
   [path |-> "/api/b", url |-> "/api/b", query |-> <<>>],
   [path |-> "/api/a", url |-> "/api/a?x=1&y=2", query |-> << <<"x", "1">>, <<"y", "2">> >>],
   [path |-> "/api/a", url |-> "/api/a?y=2&x=1", query |-> << <<"y", "2">>, <<"x", "1">> >>],
   [path |-> "/api/a", url |-> "/api/a?x=1&y=3", query |-> << <<"x", "1">>, <<"y", "3">> >>]}

\* path + query, for the requests of the model
PathQuery ==
  [p \in Paths \cup {r.url : r \in Probes}, q \in Queries \cup {r.query : r \in Probes} |->
     p \o QueryJson(q)]

\* Buffer.from(x).toString('base64'): one piece without ":" or "*"
Base64Of == [x \in {PathQuery[pq] : pq \in DOMAIN PathQuery} |-> "b64<" \o x \o ">"]

Base64(x) == Base64Of[x]

\* the keys of the model, in pieces
KeyTokens ==
  {<<"test", ":", "service">>}
    \cup {<<"playlist", ":", p>> : p \in Pids \cup OtherPids}
    \cup {<<"public", ":", "playlists", ":", "1", ":", "20">>}
    \cup {<<"playlist", ":", p, ":", "songs">> : p \in Pids}
    \cup {<<"user", ":", u, ":", "playlists">> : u \in Users}
    \cup {<<"api", ":", c, ":", Base64(PathQuery[p, q])>> :
            c \in Users \cup {"anonymous"}, p \in Paths, q \in Queries}

\* the keys of the default generator for the probe requests, in pieces
ProbeTokens ==
  {<<"api", ":", c, ":", Base64(PathQuery[r.url, r.query])>> :
     c \in Users \cup {"anonymous"}, r \in Probes}

KeyOf == [t \in KeyTokens \cup ProbeTokens |-> Join(t)]

Key(t) == KeyOf[t]

Keys == {KeyOf[t] : t \in KeyTokens}

Tokens == [k \in Keys |-> CHOOSE t \in KeyTokens : KeyOf[t] = k]

-----------------------------------------------------------------------------
(* Cache keys: this.keys *)

userPlaylists(userId) == Key(<<"user", ":", userId, ":", "playlists">>)
playlist(playlistId) == Key(<<"playlist", ":", playlistId>>)
playlistSongs(playlistId) == Key(<<"playlist", ":", playlistId, ":", "songs">>)

\* `public:playlists:${page}:${limit}`, for any strings
publicPlaylists(page, limit) == Join(<<"public", ":", "playlists", ":", page, ":", limit>>)

\* identifiers as a client may send them, the separator included
Idents == {"1", "3", "1:2", "2:3"}

\* Buffer.from(query).toString('base64') of the identifiers
QueryBase64 == [q \in Idents |->
  CASE q = "1" -> "MQ==" [] q = "3" -> "Mw==" [] q = "1:2" -> "MToy" [] q = "2:3" -> "Mjoz"]

\* `search:${playlistId}:${Buffer.from(query).toString('base64')}`
songSearch(playlistId, query) == Join(<<"search", ":", playlistId, ":", QueryBase64[query]>>)

\* the generators of cacheService.keys that take two identifiers
Generate(gen, x, y) == IF gen = "publicPlaylists" THEN publicPlaylists(x, y) ELSE songSearch(x, y)

\* the key of the service's own test
TestKey == Key(<<"test", ":", "service">>)

-----------------------------------------------------------------------------
(* Requests, as the auth middleware hands them on, and the default key     *)
(* generator of cacheMiddleware                                            *)

\* auth: req.userId = decoded.userId; req.user is never set ("" = undefined)
Auth(u, method, path, query, id) ==
  [method |-> method, originalUrl |-> path, query |-> query, userId |-> u, user |-> "",
   params |-> [id |-> id, playlistId |-> ""]]

\* req.user?.id || 'anonymous'
CallerId(req) == IF req.user # "" THEN req.user ELSE "anonymous"

DefaultKey(keyPrefix, req) ==
  Key(<<keyPrefix, ":", CallerId(req), ":", Base64(PathQuery[req.originalUrl, req.query])>>)

-----------------------------------------------------------------------------
(* The Redis keyspace and the commands the service sends *)

Absent == [text |-> NoText, exp |-> 0]

Present(s, k) == s[k] # Absent

\* KEYS pattern: glob matching of a pattern and a key, both in pieces;
\* "*" matches any run of pieces
RECURSIVE GlobMatch(_, _)
GlobMatch(p, k) ==
  IF p = <<>> THEN k = <<>>
  ELSE IF Head(p) = "*"
       THEN GlobMatch(Tail(p), k) \/ (k # <<>> /\ GlobMatch(p, Tail(k)))
       ELSE k # <<>> /\ Head(k) = Head(p) /\ GlobMatch(Tail(p), Tail(k))

\* a scan that ignores its pattern
KeysMatchingAll(s, pattern) == {k \in DOMAIN s : Present(s, k)}

KeysMatching(s, pattern) == {k \in DOMAIN s : Present(s, k) /\ GlobMatch(pattern, Tokens[k])}

\* the expiry of an entry written without one
Never == -1

\* a store that never drops an entry
ExpireNothing(s, t) == s

\* entries whose expiry has passed are gone
Expire(s, t) == [k \in DOMAIN s |-> IF s[k].exp = Never \/ s[k].exp > t THEN s[k] ELSE Absent]

-----------------------------------------------------------------------------
(* CacheService: every operation maps (metrics, keyspace) to a result      *)
(* [thrown, ret, m, s, cmds]; cmds counts the commands sent to the store.  *)
(* f is what the store does with the command: "ok", or the command that    *)
(* is rejected.                                                            *)

Inc(m, c) == [m EXCEPT ![c] = @ + 1]

Result(thrown, ret, m, s, cmds) == [thrown |-> thrown, ret |-> ret, m |-> m, s |-> s, cmds |-> cmds]

\* a catch block that forgets to count the error
CaughtUncounted(t, onError) == Result(FALSE, onError, t.m, t.s, t.cmds)

\* the catch block shared by get, set, del, invalidate, exists
Caught(t, onError) == Result(FALSE, onError, Inc(t.m, "errors"), t.s, t.cmds)

\* a guard that only looks at the client object
NotUsableClientOnly == ~client

\* `!this.isConnected || !this.client`
NotUsable == ~isConnected \/ ~client

tryGet(m, s, key, f) ==
  IF f # "ok" THEN Result(TRUE, Undefined, m, s, 1)
  ELSE LET data == s[key].text IN
       IF TextTruthy(data)
       THEN IF ParseThrows(data)
            THEN Result(TRUE, Undefined, Inc(m, "hits"), s, 1)
            ELSE Result(FALSE, Parse(data), Inc(m, "hits"), s, 1)
       ELSE Result(FALSE, Null, Inc(m, "misses"), s, 1)

get(m, s, key, f) ==
  IF NotUsable THEN Result(FALSE, Null, m, s, 0)
  ELSE LET t == tryGet(m, s, key, f) IN
       IF t.thrown THEN Caught(t, Null) ELSE t

\* a set that reports success without writing the entry
trySetNoWrite(m, s, key, value, ttl, f) ==
  IF StringifyThrows(value) \/ value.ty = "undefined" THEN Result(TRUE, Undefined, m, s, 0)
  ELSE IF f # "ok" \/ ttl <= 0 THEN Result(TRUE, Undefined, m, s, 1)
  ELSE Result(FALSE, JBool(TRUE), Inc(m, "sets"), s, 1)

trySet(m, s, key, value, ttl, f) ==
  IF StringifyThrows(value) \/ value.ty = "undefined" THEN Result(TRUE, Undefined, m, s, 0)
  ELSE IF f # "ok" \/ ttl <= 0 THEN Result(TRUE, Undefined, m, s, 1)
  ELSE Result(FALSE, JBool(TRUE), Inc(m, "sets"),
              [s EXCEPT ![key] = [text |-> Stringify(value), exp |-> now + ttl]], 1)

set(m, s, key, value, ttl, f) ==
  IF NotUsable THEN Result(FALSE, JBool(FALSE), m, s, 0)
  ELSE LET t == trySet(m, s, key, value, ttl, f) IN
       IF t.thrown THEN Caught(t, JBool(FALSE)) ELSE t

\* client.set(key, text, 'EXPIREAT', timestamp): EXPIREAT is no option of
\* SET. What happens is the client library's choice (o): it drops the
\* arguments it does not know and sends SET key text, or it sends them and
\* the store answers with a syntax error.
trySetWithExpiry(m, s, key, value, timestamp, f, o) ==
  IF StringifyThrows(value) \/ value.ty = "undefined" THEN Result(TRUE, Undefined, m, s, 0)
  ELSE IF f # "ok" \/ o = "syntaxError" THEN Result(TRUE, Undefined, m, s, 1)
  ELSE Result(FALSE, JBool(TRUE), Inc(m, "sets"),
              [s EXCEPT ![key] = [text |-> Stringify(value), exp |-> Never]], 1)

setWithExpiry(m, s, key, value, expireAt, f, o) ==
  IF NotUsable THEN Result(FALSE, JBool(FALSE), m, s, 0)
  ELSE LET t == trySetWithExpiry(m, s, key, value, expireAt, f, o) IN
       IF t.thrown THEN Caught(t, JBool(FALSE)) ELSE t

tryDel(m, s, key, f) ==
  IF f # "ok" THEN Result(TRUE, Undefined, m, s, 1)
  ELSE LET result == IF Present(s, key) THEN 1 ELSE 0 IN
       Result(FALSE, JBool(result > 0), Inc(m, "deletes"), [s EXCEPT ![key] = Absent], 1)

del(m, s, key, f) ==
  IF NotUsable THEN Result(FALSE, JBool(FALSE), m, s, 0)
  ELSE LET t == tryDel(m, s, key, f) IN
       IF t.thrown THEN Caught(t, JBool(FALSE)) ELSE t

\* an invalidation that counts the keys and deletes none
tryInvalidateKeysOnly(m, s, pattern, f) ==
  IF f = "keys" THEN Result(TRUE, Undefined, m, s, 1)
  ELSE Result(FALSE, JNum(Cardinality(KeysMatching(s, pattern))), m, s, 1)

tryInvalidate(m, s, pattern, f) ==
  IF f = "keys" THEN Result(TRUE, Undefined, m, s, 1)
  ELSE LET keys == KeysMatching(s, pattern) IN
       IF keys = {} THEN Result(FALSE, JNum(0), m, s, 1)
       ELSE IF f # "ok" THEN Result(TRUE, Undefined, m, s, 2)
       ELSE LET result == Cardinality(keys) IN
            Result(FALSE, JNum(result), [m EXCEPT !["deletes"] = @ + result],
                   [k \in DOMAIN s |-> IF k \in keys THEN Absent ELSE s[k]], 2)

invalidate(m, s, pattern, f) ==
  IF NotUsable THEN Result(FALSE, JNum(0), m, s, 0)
  ELSE LET t == tryInvalidate(m, s, pattern, f) IN
       IF t.thrown THEN Caught(t, JNum(0)) ELSE t

tryExists(m, s, key, f) ==
  IF f # "ok" THEN Result(TRUE, Undefined, m, s, 1)
  ELSE LET result == IF Present(s, key) THEN 1 ELSE 0 IN
       Result(FALSE, JBool(result = 1), m, s, 1)

exists(m, s, key, f) ==
  IF NotUsable THEN Result(FALSE, JBool(FALSE), m, s, 0)
  ELSE LET t == tryExists(m, s, key, f) IN
       IF t.thrown THEN Caught(t, JBool(FALSE)) ELSE t

flush(m, s, f) ==
  IF NotUsable THEN Result(FALSE, JBool(FALSE), m, s, 0)
  ELSE IF f # "ok" THEN Result(FALSE, JBool(FALSE), m, s, 1)
  ELSE Result(FALSE, JBool(TRUE), m, [k \in DOMAIN s |-> Absent], 1)

-----------------------------------------------------------------------------
(* State after construction (constructor of CacheService; an existing      *)
(* primary store)                                                          *)

NoCall == [op |-> "none", key |-> "", pat |-> <<>>, arg |-> Undefined, thrown |-> FALSE, ret |-> Undefined,
           cmds |-> 0, f |-> "ok", was |-> FALSE, raised |-> FALSE]

NoResp == [handler |-> "none", user |-> "", pid |-> "", status |-> 0, data |-> Undefined,
           cached |-> FALSE, dbReads |-> 0, seq |-> 0]

NoMw == [kind |-> "none", seq |-> 0]

NoPending == [at |-> "idle", user |-> "", pid |-> "", doc |-> Missing]

\* concurrent callers of the service
Callers == {1, 2}

Idle == [op |-> "none", key |-> "", arg |-> Undefined, seen |-> <<>>]

NoFlights == [calls |-> [c \in Callers |-> Idle],
              done |-> [hits |-> 0, misses |-> 0, sets |-> 0, reset |-> FALSE, overlap |-> FALSE]]

ZeroMetrics == [hits |-> 0, misses |-> 0, sets |-> 0, deletes |-> 0, errors |-> 0]

Total(m) == m.hits + m.misses + m.sets + m.deletes + m.errors

Init ==
  /\ client = FALSE
  /\ sock = "none"
  /\ isConnected = FALSE
  /\ retryAttempts = 0
  /\ metrics = ZeroMetrics
  /\ store = [k \in Keys |-> Absent]
  /\ now = 0
  /\ call = NoCall
  /\ db = [p \in Pids |-> Doc(p, "Road Trip", "u1", {}, FALSE)]
  /\ resp = NoResp
  /\ mw = NoMw
  /\ pending = NoPending
  /\ inflight = NoFlights

-----------------------------------------------------------------------------
(* Connection life cycle: connect(), the client's event callbacks,         *)
(* disconnect()                                                            *)

\* connect(): o is how far it gets
Connecting(o) ==
  /\ ~client
  /\ \/ /\ o = "createFails"
        /\ client' = FALSE /\ sock' = "none" /\ isConnected' = FALSE
        /\ UNCHANGED retryAttempts
     \/ /\ o = "connectFails"
        /\ client' = TRUE /\ sock' = "connecting" /\ isConnected' = FALSE
        /\ UNCHANGED retryAttempts
     \/ /\ o = "pingFails"
        /\ client' = TRUE /\ sock' = "ready" /\ isConnected' = FALSE
        /\ retryAttempts' = 0
     \/ /\ o = "ok"
        /\ client' = TRUE /\ sock' = "ready" /\ isConnected' = TRUE
        /\ retryAttempts' = 0
  /\ UNCHANGED <<metrics, store, now, db, resp, mw, pending, inflight>>

Connect(o) == Connecting(o) /\ call' = NoCall

\* client.on('ready')
OnReady ==
  /\ client /\ sock = "connecting"
  /\ sock' = "ready"
  /\ isConnected' = TRUE
  /\ retryAttempts' = 0
  /\ call' = NoCall
  /\ UNCHANGED <<client, metrics, store, now, db, resp, mw, pending, inflight>>

\* client.on('error'): the socket is lost (lost = TRUE) or stays as it is
OnError(lost) ==
  /\ client /\ sock \in {"connecting", "ready"}
  /\ Total(metrics) < MaxOps
  /\ isConnected' = FALSE
  /\ metrics' = Inc(metrics, "errors")
  /\ sock' = IF lost THEN "connecting" ELSE sock
  /\ call' = NoCall
  /\ UNCHANGED <<client, retryAttempts, store, now, db, resp, mw, pending, inflight>>

maxRetries == 5

\* the socket's reconnectStrategy: the delay in ms, always a number
reconnectStrategyUncapped(retries) == retries * 50

reconnectStrategy(retries) == IF retries * 50 < 500 THEN retries * 50 ELSE 500

\* client.on('reconnecting'): the client has waited reconnectStrategy(retries)
\* and tries again; retries is the client's own count of attempts since the
\* connection was lost, which starts at 0 or at 1. No step reads maxRetries;
\* cap only bounds the counter in the model.
Reconnecting(cap) ==
  /\ client /\ sock = "connecting"
  /\ retryAttempts < cap
  /\ retryAttempts' = retryAttempts + 1
  /\ \E retries \in {retryAttempts, retryAttempts + 1} :
       call' = [NoCall EXCEPT !.op = "reconnecting", !.arg = retries,
                              !.ret = reconnectStrategy(retries)]
  /\ UNCHANGED <<client, sock, isConnected, metrics, store, now, db, resp, mw, pending, inflight>>

OnReconnecting == Reconnecting(MaxRetry)

\* disconnect(): quit, then client.on('end')
Disconnect ==
  /\ client /\ sock # "closed"
  /\ sock' = "closed"
  /\ isConnected' = FALSE
  /\ call' = NoCall
  /\ UNCHANGED <<client, retryAttempts, metrics, store, now, db, resp, mw, pending, inflight>>

-----------------------------------------------------------------------------
(* The store's own steps *)

TickStep == 600

\* time passes; entries past their expiry disappear
Tick ==
  /\ now + TickStep <= MaxTime
  /\ now' = now + TickStep
  /\ store' = Expire(store, now')
  /\ call' = NoCall
  /\ UNCHANGED <<client, sock, isConnected, retryAttempts, metrics, db, resp, mw, pending, inflight>>

\* another client of the same Redis writes a string that is not JSON
ForeignWrite(k) ==
  /\ store[k] = Absent
  /\ store' = [store EXCEPT ![k] = [text |-> Garbage, exp |-> now + TickStep]]
  /\ call' = NoCall
  /\ UNCHANGED <<client, sock, isConnected, retryAttempts, metrics, now, db, resp, mw, pending, inflight>>

-----------------------------------------------------------------------------
(* Calls of the CacheService operations *)

SvcKeys == {TestKey, playlist("p1")}
SvcValues == {Null, JBool(FALSE), JNum(0), JArr({}), JObj(Doc("p1", "Road Trip", "u1", {}, FALSE)), Circular}
SvcTTL == 600
ShortTTL == 1
SvcTTLs == {ShortTTL, SvcTTL}
Faults == {"ok", "reject"}

\* call records the operation, its key, pattern and value argument ("", <<>>
\* and undefined where it has none), what it returned, whether the key (or a match of the
\* pattern) was there before, and whether the client or the JSON conversion
\* raised an error during it
Called(op, key, pat, arg, r, f, was, raised) ==
  /\ call' = [op |-> op, key |-> key, pat |-> pat, arg |-> arg, thrown |-> r.thrown, ret |-> r.ret, cmds |-> r.cmds,
              f |-> f, was |-> was, raised |-> raised]
  /\ metrics' = r.m
  /\ store' = r.s
  /\ UNCHANGED <<client, sock, isConnected, retryAttempts, now, db, resp, mw, pending, inflight>>

Get(k, f) ==
  /\ Total(metrics) < MaxOps
  /\ Called("get", k, <<>>, Undefined, get(metrics, store, k, f), f, Present(store, k),
            f # "ok" \/ store[k].text = Garbage)

Set(k, v, ttl, f) ==
  /\ Total(metrics) < MaxOps
  /\ Called("set", k, <<>>, v, set(metrics, store, k, v, ttl, f), f, Present(store, k),
            f # "ok" \/ v = Circular)

Del(k, f) ==
  /\ Total(metrics) < MaxOps
  /\ Called("del", k, <<>>, Undefined, del(metrics, store, k, f), f, Present(store, k), f # "ok")

Invalidate(p, f) ==
  /\ Total(metrics) < MaxOps
  /\ Called("invalidate", "", p, Undefined, invalidate(metrics, store, p, f), f, KeysMatching(store, p) # {},
            f = "keys" \/ (f = "del" /\ KeysMatching(store, p) # {}))

Exists(k, f) ==
  /\ Total(metrics) < MaxOps
  /\ Called("exists", k, <<>>, Undefined, exists(metrics, store, k, f), f, Present(store, k), f # "ok")

Flush(f) ==
  /\ Total(metrics) < MaxOps
  /\ Called("flush", "", <<>>, Undefined, flush(metrics, store, f), f, \E k \in Keys : Present(store, k), f # "ok")

SvcPatterns == {<<"playlist", ":", "*">>, <<"test", ":", "service">>}

Next ==
  \/ \E o \in {"createFails", "connectFails", "pingFails", "ok"} : Connect(o)
  \/ OnReady
  \/ \E lost \in BOOLEAN : OnError(lost)
  \/ OnReconnecting
  \/ Disconnect
  \/ Tick
  \/ \E k \in SvcKeys : ForeignWrite(k)
  \/ \E k \in SvcKeys, f \in Faults : Get(k, f)
  \/ \E v \in SvcValues, ttl \in SvcTTLs, f \in Faults : Set(TestKey, v, ttl, f)
  \/ \E k \in SvcKeys \ {TestKey} : Set(k, JObj(Doc("p1", "Road Trip", "u1", {}, FALSE)), SvcTTL, "ok")
  \/ \E k \in SvcKeys, f \in Faults : Del(k, f)
  \/ \E p \in SvcPatterns, f \in {"ok", "keys", "del"} : Invalidate(p, f)
  \/ \E k \in SvcKeys, f \in Faults : Exists(k, f)
  \/ \E f \in Faults : Flush(f)

Spec == Init /\ [][Next]_vars

-----------------------------------------------------------------------------
(* Properties of the CacheService operations (specification Spec) *)

\* what each operation returns when it does nothing
Fallback(op) ==
  CASE op = "get" -> Null
    [] op = "invalidate" -> JNum(0)
    [] OTHER -> JBool(FALSE)

\* C1: while the service is disconnected (isConnected false or no client),
\* get / set / del / invalidate / exists / flush return null / false / false /
\* 0 / false / false, do not throw, send no command to the store and leave
\* the metrics (and the keyspace) as they were.
C1_DisconnectedIsInert ==
  [][((~isConnected \/ ~client) /\ call'.op \in {"get", "set", "del", "invalidate", "exists", "flush"})
       => /\ call'.ret = Fallback(call'.op)
          /\ ~call'.thrown
          /\ call'.cmds = 0
          /\ metrics' = metrics
          /\ store' = store]_vars

\* a get on a key that is in the store, made while a client exists but the
\* service is marked disconnected
C1_Witness ==
  /\ call.op = "get" /\ call.was /\ call.f = "ok"
  /\ client /\ ~isConnected
  /\ call.ret = Null

C10_DelAbsentReturnsTrue ==
  (call.op = "del" /\ isConnected /\ client /\ call.f = "ok" /\ ~call.was) => call.ret = JBool(TRUE)

\* C11: round trip.  While connected and with the store accepting commands,
\* set(k, v, t) of a value that has a JSON text (null, false, 0 and empty
\* containers included), with t > 0, returns true, and a get(k) that is the
\* very next call returns a value equal to v.
C11_RoundTrip ==
  [][/\ (isConnected /\ client /\ call'.op = "set" /\ call'.f = "ok"
         /\ call'.arg \notin {Circular, Undefined})
        => call'.ret = JBool(TRUE)
     /\ (isConnected /\ client /\ call.op = "set" /\ call.ret = JBool(TRUE)
         /\ call'.op = "get" /\ call'.key = call.key /\ call'.f = "ok")
        => call'.ret = call.arg]_vars

\* a get that returned false right after false was set under its key
C11_Witness ==
  /\ call.op = "get" /\ call.key = TestKey /\ call.ret = JBool(FALSE) /\ call.was
  /\ isConnected /\ client
  /\ metrics = [hits |-> 1, misses |-> 0, sets |-> 1, deletes |-> 0, errors |-> 0]

\* C12 as claimed: every get adds 1 to hits exactly when it returns a value,
\* adds 1 to misses exactly when it returns absent (null), be it for a missing
\* key, a failing store or a disconnected service, and adds 1 to errors
\* exactly when the absent result comes from a failure of the store.
C12_GetCounters ==
  [][call'.op = "get" =>
       /\ metrics'.hits = metrics.hits + (IF call'.ret # Null THEN 1 ELSE 0)
       /\ metrics'.misses = metrics.misses + (IF call'.ret = Null THEN 1 ELSE 0)
       /\ metrics'.errors = metrics.errors
            + (IF call'.ret = Null /\ call'.raised /\ isConnected /\ client THEN 1 ELSE 0)]_vars

-----------------------------------------------------------------------------
(* The playlist controllers (specification SpecApp).  A handler is one     *)
(* step: its cache calls, its primary-store calls and its response.  fg,   *)
(* fs, fi are what the store does with the handler's get, set and          *)
(* invalidate commands.                                                    *)

PlaylistTTL == 600     \* cacheService.set(cacheKey, playlist, 600)
PlaylistsTTL == 900    \* cacheService.set(cacheKey, playlists, 900)

\* isCreator || isCollaborator || isPublic, on a populated document
CanRead(d, u) == d.isPublic \/ d.creator = u \/ u \in d.collabs

\* Playlist.find({$or: [creator, collaborators.user, isPublic]})
Visible(u) == {db[p] : p \in {q \in Pids : db[q] # Missing /\ CanRead(db[q], u)}}

\* res.json / next(AppError) -> errorHandler -> res.status(statusCode).json
Respond(handler, u, p, status, data, cached, dbReads) ==
  resp' = [handler |-> handler, user |-> u, pid |-> p, status |-> status, data |-> data,
           cached |-> cached, dbReads |-> dbReads, seq |-> 1 - resp.seq]

AppFrame == UNCHANGED <<client, sock, isConnected, retryAttempts, now, mw, pending, inflight>>

getPlaylists(u, fg, fs) ==
  /\ Total(metrics) < MaxOps
  /\ LET cacheKey == userPlaylists(u)
         g == get(metrics, store, cacheKey, fg)
     IN IF Truthy(g.ret)
        THEN /\ Respond("getPlaylists", u, "", 200, g.ret, TRUE, 0)
             /\ metrics' = g.m /\ store' = g.s /\ call' = NoCall
        ELSE LET playlists == Visible(u)
                 w == set(g.m, g.s, cacheKey, JArr(playlists), PlaylistsTTL, fs)
             IN /\ Respond("getPlaylists", u, "", 200, JArr(playlists), FALSE, 1)
                /\ metrics' = w.m /\ store' = w.s /\ call' = NoCall
  /\ UNCHANGED db
  /\ AppFrame

getPlaylistById(u, p, fg, fs) ==
  /\ Total(metrics) < MaxOps
  /\ LET cacheKey == playlist(p)
         g == get(metrics, store, cacheKey, fg)
     IN IF Truthy(g.ret)
        THEN /\ IF g.ret.ty # "object"
                THEN Respond("getPlaylistById", u, p, 500, Undefined, FALSE, 0)
                ELSE IF ~CanRead(g.ret.doc, u)
                THEN Respond("getPlaylistById", u, p, 403, Undefined, FALSE, 0)
                ELSE Respond("getPlaylistById", u, p, 200, g.ret, TRUE, 0)
             /\ metrics' = g.m /\ store' = g.s /\ call' = NoCall
        ELSE IF db[p] = Missing
        THEN /\ Respond("getPlaylistById", u, p, 404, Undefined, FALSE, 1)
             /\ metrics' = g.m /\ store' = g.s /\ call' = NoCall
        ELSE IF ~CanRead(db[p], u)
        THEN /\ Respond("getPlaylistById", u, p, 403, Undefined, FALSE, 1)
             /\ metrics' = g.m /\ store' = g.s /\ call' = NoCall
        ELSE LET w == set(g.m, g.s, cacheKey, JObj(db[p]), PlaylistTTL, fs)
             IN /\ Respond("getPlaylistById", u, p, 200, JObj(db[p]), FALSE, 1)
                /\ metrics' = w.m /\ store' = w.s /\ call' = NoCall
  /\ UNCHANGED db
  /\ AppFrame

\* the pattern of an exact key and of the public listings
PublicPattern == <<"public", ":", "playlists", ":", "*">>

createPlaylist(u, name, isPublic, saved, fi) ==
  /\ Total(metrics) < MaxOps
  /\ \E p \in Pids :
       /\ db[p] = Missing
       /\ IF ~saved
          THEN /\ Respond("createPlaylist", u, p, 500, Undefined, FALSE, 0)
               /\ UNCHANGED <<db, metrics, store>>
          ELSE LET d == Doc(p, name, u, {}, isPublic)
                   i1 == invalidate(metrics, store, Tokens[userPlaylists(u)], fi)
                   i2 == IF isPublic THEN invalidate(i1.m, i1.s, PublicPattern, fi) ELSE i1
               IN /\ db' = [db EXCEPT ![p] = d]
                  /\ metrics' = i2.m /\ store' = i2.s
                  /\ Respond("createPlaylist", u, p, 201, JObj(d), FALSE, 1)
  /\ call' = NoCall
  /\ AppFrame

updatePlaylist(u, p, name, isPublic, collaborators) ==
  /\ IF db[p] = Missing
     THEN /\ Respond("updatePlaylist", u, p, 404, Undefined, FALSE, 1)
          /\ UNCHANGED db
     ELSE IF db[p].creator # u
     THEN /\ Respond("updatePlaylist", u, p, 403, Undefined, FALSE, 1)
          /\ UNCHANGED db
     ELSE LET d == [Doc(p, name, db[p].creator, collaborators, isPublic) EXCEPT !.songs = db[p].songs]
          IN /\ db' = [db EXCEPT ![p] = d]
             /\ Respond("updatePlaylist", u, p, 200, JObj(d), FALSE, 2)
  /\ call' = NoCall
  /\ UNCHANGED <<metrics, store>>
  /\ AppFrame

deletePlaylist(u, p) ==
  /\ IF db[p] = Missing
     THEN /\ Respond("deletePlaylist", u, p, 404, Undefined, FALSE, 1)
          /\ UNCHANGED db
     ELSE IF db[p].creator # u
     THEN /\ Respond("deletePlaylist", u, p, 403, Undefined, FALSE, 1)
          /\ UNCHANGED db
     ELSE /\ db' = [db EXCEPT ![p] = Missing]
          /\ Respond("deletePlaylist", u, p, 200, Undefined, FALSE, 2)
  /\ call' = NoCall
  /\ UNCHANGED <<metrics, store>>
  /\ AppFrame

NextApp ==
  \/ \E o \in {"connectFails", "ok"} : Connect(o)
  \/ OnReady
  \/ \E lost \in BOOLEAN : OnError(lost)
  \/ Tick
  \/ \E u \in Users, fg \in Faults, fs \in Faults : getPlaylists(u, fg, fs)
  \/ \E u \in Users, p \in Pids, fg \in Faults, fs \in Faults : getPlaylistById(u, p, fg, fs)
  \/ \E u \in Users, pub \in BOOLEAN, saved \in BOOLEAN, fi \in {"ok", "keys", "del"} :
       createPlaylist(u, "Road Trip", pub, saved, fi)
  \/ \E u \in Users, p \in Pids, n \in Names, pub \in BOOLEAN :
       updatePlaylist(u, p, n, pub, db[p].collabs)
  \/ \E u \in Users, p \in Pids : deletePlaylist(u, p)

SpecApp == Init /\ [][NextApp]_vars

-----------------------------------------------------------------------------
(* Properties of the controllers (specification SpecApp) *)

\* what getPlaylistById answers from the primary store alone
PrimaryById(u, p) ==
  IF db[p] = Missing THEN [status |-> 404, data |-> Undefined]
  ELSE IF ~CanRead(db[p], u) THEN [status |-> 403, data |-> Undefined]
  ELSE [status |-> 200, data |-> JObj(db[p])]

\* what getPlaylists answers from the primary store alone
PrimaryList(u) == [status |-> 200, data |-> JArr(Visible(u))]

\* the step is a call of the handler h
Handled(h) == resp'.seq # resp.seq /\ resp'.handler = h

\* C3 as claimed: every response of getPlaylists and getPlaylistById has the
\* status and the data the primary store alone would produce, whatever the
\* state of the cache.
C3_ReadsAnswerAsPrimary ==
  /\ resp.handler = "getPlaylistById" =>
       /\ resp.status = PrimaryById(resp.user, resp.pid).status
       /\ resp.data = PrimaryById(resp.user, resp.pid).data
  /\ resp.handler = "getPlaylists" =>
       /\ resp.status = PrimaryList(resp.user).status
       /\ resp.data = PrimaryList(resp.user).data

\* C4 as claimed: once a read has put playlist p in the cache and a
\* successful updatePlaylist of p has responded, the next getPlaylistById of
\* p answers with the updated document and not from the cache.
C4_ReadAfterUpdateIsFresh ==
  [][(/\ resp.handler = "updatePlaylist" /\ resp.status = 200
      /\ Present(store, playlist(resp.pid))
      /\ isConnected /\ client
      /\ Handled("getPlaylistById") /\ resp'.pid = resp.pid /\ resp'.user = resp.user)
       => /\ resp'.status = 200
          /\ resp'.data = resp.data
          /\ ~resp'.cached]_vars

\* C5: population on miss.  With the cache connected and holding nothing for
\* p, a successful getPlaylistById of p is answered from the primary store,
\* not marked cached, and (when no cache command fails) leaves its answer in
\* the cache; the same read repeated while that entry is there is answered
\* with the same data, marked cached, without a primary-store lookup.
C5_PopulationOnMiss ==
  [][/\ (/\ isConnected /\ client
         /\ \E p \in Pids : /\ ~Present(store, playlist(p))
                            /\ Handled("getPlaylistById") /\ resp'.pid = p
         /\ resp'.status = 200)
        => /\ ~resp'.cached
           /\ resp'.dbReads = 1
           /\ resp'.data = JObj(db[resp'.pid])
           /\ metrics'.errors = metrics.errors
                => store'[playlist(resp'.pid)] = [text |-> Stringify(resp'.data), exp |-> now + PlaylistTTL]
     /\ (/\ isConnected /\ client
         /\ resp.handler = "getPlaylistById" /\ resp.status = 200 /\ ~resp.cached
         /\ store[playlist(resp.pid)].text = Stringify(resp.data)
         /\ Handled("getPlaylistById") /\ resp'.pid = resp.pid /\ resp'.user = resp.user
         /\ metrics'.errors = metrics.errors)
        => /\ resp'.status = 200
           /\ resp'.cached
           /\ resp'.data = resp.data
           /\ resp'.dbReads = 0]_vars

\* the second of two reads of a playlist, served from the cache
C5_Witness ==
  /\ resp.handler = "getPlaylistById" /\ resp.status = 200
  /\ resp.cached /\ resp.dbReads = 0
  /\ metrics = [hits |-> 1, misses |-> 1, sets |-> 1, deletes |-> 0, errors |-> 0]

-----------------------------------------------------------------------------
(* cacheMiddleware and invalidateCache (specification SpecMw).  A request  *)
(* is one step: the middleware, the wrapped handler and the response.      *)
(* A handler outcome h says how the handler answers: via "json"            *)
(* (res.status(s).json(body)), via "send" (res.status(s).send(body)) or    *)
(* via "error" (next(err), answered by errorHandler with                   *)
(* res.status(statusCode).json).                                           *)

DefaultTTL == 3600                                   \* ttl = 3600
\* an exclusion list without the creating and updating methods
ExcludeDeleteOnly == {"DELETE"}

ExcludeMethods == {"POST", "PUT", "DELETE", "PATCH"} \* excludeMethods default

ErrBody == JObj(Doc("error", "", "", {}, FALSE))

\* what a handler of a read route may answer for caller u
Bodies(u) == {Null, JNum(0), JObj(Doc("mine", "Road Trip", u, {}, FALSE))}

Outcomes(u) ==
  {[via |-> "json", status |-> 200, body |-> b] : b \in Bodies(u)}
    \cup {[via |-> "json", status |-> 404, body |-> ErrBody],
          [via |-> "error", status |-> 500, body |-> ErrBody],
          [via |-> "send", status |-> 200, body |-> JStr("a")]}

\* a status check that lets everything through
AnyStatus(status) == TRUE

\* `res.statusCode >= 200 && res.statusCode < 300` in the wrapped res.json
CacheableStatus(status) == status >= 200 /\ status < 300

\* a response that is withheld when the write did not succeed
DeliveredIfStored(h, w) ==
  IF w.ret = JBool(TRUE) THEN [status |-> h.status, body |-> h.body]
  ELSE [status |-> 500, body |-> ErrBody]

\* `return originalJson.call(this, data)`: what goes out is what the handler
\* gave to res.json, whatever became of the write w
Delivered(h, w) == [status |-> h.status, body |-> h.body]

\* what the store may do with the write of a population: answer, reject, or
\* never answer
WriteFaults == Faults \cup {"hang"}

MwFrame == UNCHANGED <<client, sock, isConnected, retryAttempts, now, resp, pending, inflight>>

\* mw.cached says whether the response carries a mark of its cache origin:
\* `res.json(cachedData)` sends the stored payload as it is, and the
\* handler's own responses pass through unchanged, so no path sets one
\* keyGenerator is "default" (none given) or a function that throws for this
\* request; replay says whether res.json(cachedData) throws. The key is
\* generated outside the try block: an exception there rejects the promise
\* of the middleware, which nobody handles, so neither next() is called nor
\* a response sent.
cacheMiddlewareWith(req, keyGenerator, h, fg, fs, replay) ==
  /\ Total(metrics) < MaxOps
  /\ IF req.method \in ExcludeMethods
     THEN /\ mw' = [kind |-> "cache", seq |-> 1 - mw.seq, user |-> req.userId, method |-> req.method,
                    key |-> <<>>, had |-> FALSE, stored |-> Undefined, lookups |-> 0,
                    nextCalls |-> 1, fromCache |-> FALSE, wrapped |-> FALSE, wrote |-> FALSE,
                    via |-> h.via, status |-> h.status, body |-> h.body,
                    hstatus |-> h.status, hbody |-> h.body, log |-> <<"next", "sent">>,
                    cached |-> FALSE]
          /\ UNCHANGED <<metrics, store>>
     ELSE IF keyGenerator = "throws"
     THEN /\ mw' = [kind |-> "cache", seq |-> 1 - mw.seq, user |-> req.userId, method |-> req.method,
                    key |-> <<>>, had |-> FALSE, stored |-> Undefined, lookups |-> 0,
                    nextCalls |-> 0, fromCache |-> FALSE, wrapped |-> FALSE, wrote |-> FALSE,
                    via |-> "none", status |-> 0, body |-> Undefined,
                    hstatus |-> 0, hbody |-> Undefined, log |-> <<"rejected">>,
                    cached |-> FALSE]
          /\ UNCHANGED <<metrics, store>>
     ELSE LET cacheKey == DefaultKey("api", req)
              had == Present(store, cacheKey) /\ ~ParseThrows(store[cacheKey].text)
              stored == Parse(store[cacheKey].text)
          IN \E g \in {get(metrics, store, cacheKey, fg)} :
             IF Truthy(g.ret) /\ replay = "throws"
             THEN /\ mw' = [kind |-> "cache", seq |-> 1 - mw.seq, user |-> req.userId,
                            method |-> req.method, key |-> cacheKey, had |-> had, stored |-> stored,
                            lookups |-> 1, nextCalls |-> 1, fromCache |-> FALSE, wrapped |-> FALSE,
                            wrote |-> FALSE, via |-> h.via, status |-> h.status, body |-> h.body,
                            hstatus |-> h.status, hbody |-> h.body, log |-> <<"caught", "next", "sent">>,
                            cached |-> FALSE]
                  /\ metrics' = g.m /\ store' = g.s
             ELSE IF Truthy(g.ret)
             THEN /\ mw' = [kind |-> "cache", seq |-> 1 - mw.seq, user |-> req.userId,
                            method |-> req.method, key |-> cacheKey, had |-> had, stored |-> stored,
                            lookups |-> 1, nextCalls |-> 0, fromCache |-> TRUE, wrapped |-> FALSE,
                            wrote |-> FALSE, via |-> "json", status |-> 200, body |-> g.ret,
                            hstatus |-> 0, hbody |-> Undefined, log |-> <<"sent">>,
                            cached |-> FALSE]
                  /\ metrics' = g.m /\ store' = g.s
             ELSE LET writes == h.via \in {"json", "error"} /\ CacheableStatus(h.status)
                      settles == writes /\ fs # "hang"
                  IN \E w \in {IF settles THEN set(g.m, g.s, cacheKey, h.body, DefaultTTL, fs) ELSE g} :
                     /\ mw' = [kind |-> "cache", seq |-> 1 - mw.seq, user |-> req.userId,
                               method |-> req.method, key |-> cacheKey, had |-> had, stored |-> stored,
                               lookups |-> 1, nextCalls |-> 1, fromCache |-> FALSE, wrapped |-> TRUE,
                               wrote |-> writes, via |-> h.via,
                               status |-> Delivered(h, w).status, body |-> Delivered(h, w).body,
                               hstatus |-> h.status, hbody |-> h.body,
                               log |-> <<"next">> \o (IF writes THEN <<"set">> ELSE <<>>) \o <<"sent">>
                                         \o (IF settles THEN <<"settled">> ELSE <<>>),
                               cached |-> FALSE]
                     /\ metrics' = w.m /\ store' = w.s
  /\ call' = NoCall
  /\ UNCHANGED db
  /\ MwFrame

\* cacheMiddleware() with the default options and a payload that res.json
\* can send
cacheMiddleware(req, h, fg, fs) == cacheMiddlewareWith(req, "default", h, fg, fs, "ok")

\* invalidationPatterns.playlist
PlaylistPatterns ==
  << <<"playlist", ":", ":id", ":", "*">>,
     <<"user", ":", ":userId", ":", "playlists", "*">>,
     <<"public", ":", "playlists", ":", "*">> >>

\* String.prototype.replace(placeholder, value): the first occurrence only
RECURSIVE ReplaceFirst(_, _, _)
ReplaceFirst(seq, tok, val) ==
  IF seq = <<>> THEN <<>>
  ELSE IF Head(seq) = tok THEN <<val>> \o Tail(seq)
  ELSE <<Head(seq)>> \o ReplaceFirst(Tail(seq), tok, val)

Resolve(pattern, req) ==
  LET r1 == IF req.user # "" THEN ReplaceFirst(pattern, ":userId", req.user) ELSE pattern
      r2 == IF req.params.id # "" THEN ReplaceFirst(r1, ":id", req.params.id) ELSE r1
  IN IF req.params.playlistId # "" THEN ReplaceFirst(r2, ":playlistId", req.params.playlistId) ELSE r2

Event(e, pat) == [e |-> e, pat |-> pat]

\* a loop that gives up at the first pattern whose invalidation fails
invalidateCachePatternsUntilError(pats, req, m, s, fi) ==
  LET after[i \in 0..Len(pats)] ==
        IF i = 0 THEN [m |-> m, s |-> s, log |-> <<>>]
        ELSE CHOOSE out \in
               {IF prev.m.errors > m.errors THEN prev
                ELSE LET resolvedPattern == Resolve(pats[i], req)
                         r == invalidate(prev.m, prev.s, resolvedPattern, fi)
                     IN [m |-> r.m, s |-> r.s,
                         log |-> Append(prev.log, Event("invalidate", resolvedPattern))] :
                  prev \in {after[i - 1]}} : TRUE
  IN after[Len(pats)]

\* the loop of invalidateCachePatterns: after[i] is the state once the first
\* i patterns have been resolved and invalidated (prev ranges over a
\* one-element set, so that the state before a pattern is computed once)
invalidateCachePatterns(pats, req, m, s, fi) ==
  LET after[i \in 0..Len(pats)] ==
        IF i = 0 THEN [m |-> m, s |-> s, log |-> <<>>]
        ELSE CHOOSE out \in
               {LET resolvedPattern == Resolve(pats[i], req)
                    r == invalidate(prev.m, prev.s, resolvedPattern, fi)
                IN [m |-> r.m, s |-> r.s,
                    log |-> Append(prev.log, Event("invalidate", resolvedPattern))] :
                  prev \in {after[i - 1]}} : TRUE
  IN after[Len(pats)]

\* an invalidation that does not look at the status
AlwaysInvalidate(status) == TRUE

\* `res.statusCode >= 200 && res.statusCode < 300` in the wrapped res.json / res.send
InvalidatingStatus(status) == status >= 200 /\ status < 300

\* the wrapped res.json or res.send: invalidate on a 2xx status, then the original
Wrapped(name, status, req, m, s, fi) ==
  LET run == IF InvalidatingStatus(status)
             THEN invalidateCachePatterns(PlaylistPatterns, req, m, s, fi)
             ELSE [m |-> m, s |-> s, log |-> <<>>]
  IN [m |-> run.m, s |-> run.s, log |-> <<Event(name, <<>>)>> \o run.log]

\* PUT /api/playlists/:id behind invalidateCache(invalidationPatterns.playlist):
\* updatePlaylist runs, answers through res.json (or through errorHandler's
\* res.json), and Express' res.json hands the text to res.send
invalidateCache(u, p, name, isPublic, fi) ==
  /\ Total(metrics) < MaxOps
  /\ LET req == Auth(u, "PUT", "/api/playlists", <<>>, p)
         mutates == db[p] # Missing /\ db[p].creator = u
         status == IF db[p] = Missing THEN 404 ELSE IF db[p].creator # u THEN 403 ELSE 200
         d == [Doc(p, name, u, db[p].collabs, isPublic) EXCEPT !.songs = db[p].songs]
     IN \E j \in {Wrapped("json", status, req, metrics, store, fi)} :
          \E x \in {Wrapped("send", status, req, j.m, j.s, fi)} :
            /\ db' = IF mutates THEN [db EXCEPT ![p] = d] ELSE db
            /\ mw' = [kind |-> "invalidate", seq |-> 1 - mw.seq, user |-> u, status |-> status,
                      via |-> IF mutates THEN "json" ELSE "error",
                      log |-> (IF mutates THEN <<Event("mutated", <<>>)>> ELSE <<>>)
                                \o j.log \o x.log \o <<Event("sent", <<>>)>>]
            /\ metrics' = x.m /\ store' = x.s
  /\ call' = NoCall
  /\ MwFrame

MwSetKeys == {playlist("p1"), playlistSongs("p1")}

NextMw ==
  \/ \E o \in {"connectFails", "ok"} : Connect(o)
  \/ OnReady
  \/ \E lost \in BOOLEAN : OnError(lost)
  \/ \E k \in MwSetKeys, f \in Faults : Set(k, JObj(Doc("p1", "Road Trip", "u1", {}, FALSE)), SvcTTL, f)
  \/ \E u \in Users, path \in Paths, fg \in Faults, fs \in WriteFaults :
       \E h \in Outcomes(u) : cacheMiddleware(Auth(u, "GET", path, <<>>, ""), h, fg, fs)
  \/ \E u \in Users, path \in Paths :
       cacheMiddleware(Auth(u, "POST", path, <<>>, ""),
                       [via |-> "json", status |-> 201, body |-> ErrBody], "ok", "ok")
  \/ \E u \in Users, p \in Pids, n \in Names, fi \in {"ok", "keys", "del"} :
       invalidateCache(u, p, n, db[p].isPublic, fi)

SpecMw == Init /\ [][NextMw]_vars

-----------------------------------------------------------------------------
(* Properties of the middlewares (specification SpecMw) *)

\* the step is a request through the middleware of kind k
Passed(k) == mw'.seq # mw.seq /\ mw'.kind = k

InvalidateEvents(log) == {i \in DOMAIN log : log[i].e = "invalidate"}

\* C6: invalidateCache invalidates only after the wrapped handler has called
\* res.json / res.send, and only for a 2xx status: a handler that fails
\* (non-2xx, or an error passed to next) causes no invalidation and leaves the
\* cache as it was, and every invalidation comes after the handler's write to
\* the primary store.
C6_InvalidateOnlyAfterSuccess ==
  [][Passed("invalidate") =>
       LET log == mw'.log
           first(e) == CHOOSE i \in DOMAIN log : log[i].e = e /\ \A j \in 1..(i - 1) : log[j].e # e
       IN /\ InvalidateEvents(log) # {} => (mw'.status >= 200 /\ mw'.status < 300 /\ mw'.via # "error")
          /\ (mw'.status < 200 \/ mw'.status >= 300 \/ mw'.via = "error")
               => (InvalidateEvents(log) = {} /\ store' = store /\ metrics' = metrics)
          /\ \A i \in InvalidateEvents(log) :
               /\ first("json") < i
               /\ db' # db => (log[1].e = "mutated")]_vars

\* a successful update whose invalidation removed playlist:p1:songs
C6_Witness ==
  /\ mw.kind = "invalidate" /\ mw.status = 200
  /\ InvalidateEvents(mw.log) # {}
  /\ mw.log[1].e = "mutated"
  /\ metrics.deletes = 1
  /\ ~Present(store, playlistSongs("p1"))

\* C7 as claimed: whenever the store holds a (decodable) entry under the
\* request's key and the lookup succeeds, cacheMiddleware does not call next
\* and answers with exactly the stored payload.
C7_HitShortCircuits ==
  (mw.kind = "cache" /\ mw.lookups = 1 /\ mw.had /\ isConnected /\ client /\ metrics.errors = 0)
    => (mw.nextCalls = 0 /\ mw.body = mw.stored)

\* C8: on a miss, cacheMiddleware writes to the cache only when the status at
\* res.json is in 200..299; a response with another status leaves the entry
\* under the request's key as it was.
C8_OnlySuccessIsStored ==
  [][(Passed("cache") /\ ~mw'.fromCache) =>
       /\ mw'.wrote => (mw'.status >= 200 /\ mw'.status < 300)
       /\ (mw'.status < 200 \/ mw'.status >= 300) => store' = store]_vars

\* a 404 answered through res.json on a miss, with the cache connected
C8_Witness ==
  /\ mw.kind = "cache" /\ mw.lookups = 1 /\ ~mw.fromCache
  /\ mw.status = 404 /\ mw.via = "json" /\ ~mw.wrote
  /\ isConnected /\ client
  /\ ~Present(store, mw.key)

\* C9 as claimed: with the default key generator the key contains the
\* caller's identity, and a response cached for one user is never served to
\* another user.
C9_KeyCarriesCaller ==
  (mw.kind = "cache" /\ mw.lookups = 1) =>
    /\ Tokens[mw.key][3] = mw.user
    /\ (mw.fromCache /\ mw.body.ty = "object") => mw.body.doc.creator = mw.user

\* the status the handler behind invalidateCache answers for caller u on p
HandlerStatus(u, p) == IF db[p] = Missing THEN 404 ELSE IF db[p].creator # u THEN 403 ELSE 200

\* C16: when invalidation fails inside invalidateCache (the scan or the
\* delete is rejected, or the cache is disconnected), the response keeps the
\* status the handler gave it and goes out through the handler's own path,
\* and every configured pattern is still handed to cacheService.invalidate.
C16_InvalidationFailureIsSilent ==
  [][(Passed("invalidate") /\ (metrics'.errors > metrics.errors \/ ~isConnected \/ ~client))
       => /\ \E p \in Pids :
               /\ mw'.status = HandlerStatus(mw'.user, p)
               /\ mw'.via = IF mw'.status = 200 THEN "json" ELSE "error"
               /\ mw'.status = 200 =>
                    \A n \in DOMAIN PlaylistPatterns :
                      \E i \in InvalidateEvents(mw'.log) :
                        mw'.log[i].pat = Resolve(PlaylistPatterns[n], Auth(mw'.user, "PUT", "/api/playlists", <<>>, p))
          /\ mw'.log[Len(mw'.log)] = Event("sent", <<>>)]_vars

\* a successful update whose invalidations were all rejected by the store
C16_Witness ==
  /\ mw.kind = "invalidate" /\ mw.status = 200
  /\ isConnected /\ client
  /\ metrics.errors >= 3
  /\ Cardinality(InvalidateEvents(mw.log)) >= 3

\* the positions of event e in a log
At(log, e) == {i \in DOMAIN log : log[i] = e}

\* C17: on a miss in cacheMiddleware the response goes out before the cache
\* write settles, and its status and body are the ones the handler produced,
\* whether the write succeeds, is rejected or is never answered.
C17_PopulationNeverAltersResponse ==
  [][(Passed("cache") /\ mw'.lookups = 1 /\ ~mw'.fromCache)
       => /\ mw'.status = mw'.hstatus
          /\ mw'.body = mw'.hbody
          /\ At(mw'.log, "sent") # {}
          /\ \A i \in At(mw'.log, "sent"), j \in At(mw'.log, "settled") : i < j]_vars

\* a miss answered with the handler's 200 while the store rejected the write
C17_Witness ==
  /\ mw.kind = "cache" /\ mw.lookups = 1 /\ ~mw.fromCache /\ mw.wrote
  /\ mw.log = <<"next", "set", "sent", "settled">>
  /\ mw.status = 200 /\ mw.body.ty = "object"
  /\ isConnected /\ client
  /\ metrics = [hits |-> 0, misses |-> 1, sets |-> 0, deletes |-> 0, errors |-> 1]

\* C18 as claimed: a response is marked as coming from the cache exactly
\* when it was served from the cache, in the controller reads (cached: true)
\* and in the responses cacheMiddleware replays on a hit.
C18_CacheSourcedIsAnnotated ==
  /\ (resp.handler \in {"getPlaylists", "getPlaylistById"} /\ resp.status = 200)
       => (resp.cached <=> resp.dbReads = 0)
  /\ (mw.kind = "cache" /\ mw.lookups = 1) => (mw.cached <=> mw.fromCache)

\* C19: for a request with method POST, PUT, DELETE or PATCH, cacheMiddleware
\* calls next once, looks nothing up, writes nothing (the metrics and the
\* keyspace stay as they were) and leaves res.json unwrapped.
C19_ExcludedMethodsBypass ==
  [][(Passed("cache") /\ mw'.method \in {"POST", "PUT", "DELETE", "PATCH"})
       => /\ mw'.nextCalls = 1
          /\ mw'.lookups = 0
          /\ ~mw'.wrote /\ ~mw'.wrapped /\ ~mw'.fromCache
          /\ metrics' = metrics
          /\ store' = store]_vars

\* a POST that went through while the cache, connected, held an entry of
\* the middleware
C19_Witness ==
  /\ mw.kind = "cache" /\ mw.method = "POST" /\ mw.nextCalls = 1 /\ mw.status = 201
  /\ isConnected /\ client
  /\ \E k \in Keys : Tokens[k][1] = "api" /\ Present(store, k)

-----------------------------------------------------------------------------
(* Invalidation over a populated keyspace (specification SpecInv): other   *)
(* instances of the backend fill the shared keyspace, this one invalidates *)
(* by pattern, directly and through invalidateCache.                       *)

ScopeKeys ==
  {playlist("p1"), playlistSongs("p1"), playlist("p2"), userPlaylists("u1"),
   publicPlaylists("1", "20"), TestKey}

\* 'playlist:*' and invalidationPatterns.user
ScopePatterns == {<<"playlist", ":", "*">>, <<"user", ":", "*">>}

NextInv ==
  \/ Connect("ok")
  \/ \E k \in ScopeKeys : ForeignWrite(k)
  \/ \E p \in ScopePatterns, f \in {"ok", "keys", "del"} : Invalidate(p, f)
  \/ \E u \in Users, p \in Pids, fi \in {"ok", "keys", "del"} :
       invalidateCache(u, p, "Summer Mix", db[p].isPublic, fi)

SpecInv == Init /\ [][NextInv]_vars

\* the name of key k starts with "playlist:"
InPlaylistNamespace(k) == Tokens[k][1] = "playlist" /\ Tokens[k][2] = ":"

\* C13: pattern scope.  While connected and with the store accepting
\* commands, invalidate("playlist:*") removes every key that was there and
\* whose name starts with "playlist:", leaves every other key with its value
\* and expiry, and returns the number of keys it removed (0 if none).
C13_PatternScope ==
  [][(isConnected /\ client /\ call'.op = "invalidate" /\ call'.f = "ok"
      /\ call'.pat = <<"playlist", ":", "*">>)
       => /\ \A k \in Keys : store'[k] = IF InPlaylistNamespace(k) THEN Absent ELSE store[k]
          /\ call'.ret = JNum(Cardinality({k \in Keys : Present(store, k) /\ InPlaylistNamespace(k)}))]_vars

\* invalidate("playlist:*") removed three playlist keys and left the user
\* and public keys in place
C13_Witness ==
  /\ call.op = "invalidate" /\ call.pat = <<"playlist", ":", "*">> /\ call.ret = JNum(3)
  /\ metrics.deletes = 3
  /\ Present(store, userPlaylists("u1")) /\ Present(store, publicPlaylists("1", "20"))
  /\ ~Present(store, playlist("p1")) /\ ~Present(store, playlist("p2"))

\* C14 as claimed: invalidateCache with the pattern playlist::id:* and
\* request parameter id = p1 invalidates playlist:p1:*, and after it the keys
\* playlist:p1 and playlist:p1:songs are gone while playlist:p2 is as it was.
C14_PlaceholderScenario ==
  [][(isConnected /\ client /\ Passed("invalidate") /\ mw'.status = 200
      /\ metrics'.errors = metrics.errors)
       => /\ \E i \in DOMAIN mw'.log :
               mw'.log[i] = Event("invalidate", <<"playlist", ":", "p1", ":", "*">>)
          /\ ~Present(store', playlist("p1"))
          /\ ~Present(store', playlistSongs("p1"))
          /\ store'[playlist("p2")] = store[playlist("p2")]]_vars

\* C15 as claimed: no pattern that invalidateCache hands to
\* cacheService.invalidate still contains a placeholder.
C15_NoPlaceholderLeft ==
  [][Passed("invalidate") =>
       \A i \in InvalidateEvents(mw'.log) :
         \A j \in DOMAIN mw'.log[i].pat : mw'.log[i].pat[j] \notin {":id", ":userId", ":playlistId"}]_vars

\* the generator of cacheService.keys whose keys have the shape of k
Kind(k) ==
  LET t == Tokens[k] IN
  CASE t[1] = "user" /\ Len(t) = 3 -> "user"
    [] t[1] = "user" /\ Len(t) = 5 /\ t[5] = "playlists" -> "userPlaylists"
    [] t[1] = "playlist" /\ Len(t) = 3 -> "playlist"
    [] t[1] = "playlist" /\ Len(t) = 5 /\ t[5] = "songs" -> "playlistSongs"
    [] t[1] = "public" -> "publicPlaylists"
    [] OTHER -> "other"

\* C21 as claimed: a pattern scoped to one kind matches no key of another
\* kind's generator: invalidate("user:*") removes only keys of keys.user and
\* invalidate("playlist:*") only keys of keys.playlist.
C21_KindScopedPattern ==
  [][(isConnected /\ client /\ call'.op = "invalidate" /\ call'.f = "ok"
      /\ call'.pat \in {<<"user", ":", "*">>, <<"playlist", ":", "*">>})
       => \A k \in Keys : store'[k] # store[k] => Kind(k) = call'.pat[1]]_vars

-----------------------------------------------------------------------------
(* Key generation (specification SpecKeys): a generator of                 *)
(* cacheService.keys applied to two identifier tuples                      *)

Keygen(gen, a, b) ==
  /\ call' = [op |-> "keys", gen |-> gen, a |-> a, ka |-> Generate(gen, a[1], a[2]),
              b |-> b, kb |-> Generate(gen, b[1], b[2])]
  /\ UNCHANGED <<client, sock, isConnected, retryAttempts, metrics, store, now, db, resp, mw, pending, inflight>>

\* the default key generator of cacheMiddleware applied to two authenticated
\* GET requests
KeygenDefault(u, r, v, q) ==
  /\ call' = [op |-> "defaultKey",
              a |-> [user |-> u, path |-> r.path, query |-> r.query],
              ka |-> DefaultKey("api", Auth(u, "GET", r.url, r.query, "")),
              b |-> [user |-> v, path |-> q.path, query |-> q.query],
              kb |-> DefaultKey("api", Auth(v, "GET", q.url, q.query, ""))]
  /\ UNCHANGED <<client, sock, isConnected, retryAttempts, metrics, store, now, db, resp, mw, pending, inflight>>

NextKeys ==
  \/ \E gen \in {"publicPlaylists", "songSearch"}, a \in Idents \X Idents, b \in Idents \X Idents :
       Keygen(gen, a, b)
  \/ \E u \in Users, r \in Probes, v \in Users, q \in Probes : KeygenDefault(u, r, v, q)

SpecKeys == Init /\ [][NextKeys]_vars

\* C20 as claimed: publicPlaylists(page, limit) and songSearch(playlistId,
\* query) give different keys for different identifier tuples, also when an
\* identifier contains ':'.
C20_KeysInjective ==
  (call.op = "keys" /\ call.a # call.b) => call.ka # call.kb

\* the parameters of a query, without their order
Params(query) == {query[i] : i \in DOMAIN query}

\* C22 as claimed: the default key generator gives two requests the same key
\* exactly when they have the same caller, the same path and the same set of
\* query parameters and values, whatever the order of the parameters.
C22_DefaultKeyCanonical ==
  call.op = "defaultKey" =>
    ((call.a.user = call.b.user /\ call.a.path = call.b.path
        /\ Params(call.a.query) = Params(call.b.query))
      <=> call.ka = call.kb)

-----------------------------------------------------------------------------
(* The song controllers next to the playlist read (specification           *)
(* SpecSongs): addSong and removeSong change the songs of a playlist that  *)
(* getPlaylistById reads and caches.                                       *)

\* creator, or collaborator with the role admin or editor
CanEdit(d, u) == d.creator = u \/ u \in d.collabs

addSong(u, p, s) ==
  /\ LET status == IF db[p] = Missing THEN 404
                   ELSE IF ~CanEdit(db[p], u) THEN 403
                   ELSE IF s \in db[p].songs THEN 400
                   ELSE 201
     IN /\ db' = IF status = 201 THEN [db EXCEPT ![p].songs = @ \cup {s}] ELSE db
        /\ Respond("addSong", u, p, status, Undefined, FALSE, 1)
  /\ call' = NoCall
  /\ UNCHANGED <<metrics, store>>
  /\ AppFrame

removeSong(u, p, s) ==
  /\ LET status == IF db[p] = Missing THEN 404
                   ELSE IF ~CanEdit(db[p], u) THEN 403
                   ELSE IF s \notin db[p].songs THEN 404
                   ELSE 200
     IN /\ db' = IF status = 200 THEN [db EXCEPT ![p].songs = @ \ {s}] ELSE db
        /\ Respond("removeSong", u, p, status, Undefined, FALSE, 1)
  /\ call' = NoCall
  /\ UNCHANGED <<metrics, store>>
  /\ AppFrame

NextSongs ==
  \/ Connect("ok")
  \/ Tick
  \/ \E u \in Users, p \in Pids, fg \in Faults, fs \in Faults : getPlaylistById(u, p, fg, fs)
  \/ \E u \in Users, p \in Pids, s \in Songs : addSong(u, p, s)
  \/ \E u \in Users, p \in Pids, s \in Songs : removeSong(u, p, s)

SpecSongs == Init /\ [][NextSongs]_vars

\* C23 as claimed: after a successful addSong or removeSong on playlist p the
\* entries playlist:{p} and playlist:{p}:songs are gone from the cache, and
\* the next getPlaylistById of p answers with the songs as they now are.
C23_SongChangeInvalidates ==
  /\ []((resp.handler \in {"addSong", "removeSong"} /\ resp.status \in {200, 201}
          /\ isConnected /\ client)
         => (~Present(store, playlist(resp.pid)) /\ ~Present(store, playlistSongs(resp.pid))))
  /\ [][(resp.handler \in {"addSong", "removeSong"} /\ resp.status \in {200, 201}
         /\ isConnected /\ client
         /\ Handled("getPlaylistById") /\ resp'.pid = resp.pid /\ resp'.status = 200)
          => resp'.data = JObj(db[resp.pid])]_vars

-----------------------------------------------------------------------------
(* The connection alone, with the retry counter running past maxRetries    *)
(* (specification SpecConn).                                               *)

NextConn ==
  \/ \E o \in {"ok", "connectFails"} : Connect(o)
  \/ OnReady
  \/ \E lost \in BOOLEAN : OnError(lost)
  \/ Reconnecting(MaxAttempts)
  \/ Disconnect

SpecConn == Init /\ [][NextConn]_vars

-----------------------------------------------------------------------------
(* getPlaylistById as the event loop runs it: the handler is suspended at  *)
(* each await (cacheService.get, Playlist.findById, cacheService.set) and  *)
(* other requests and events run in between (specifications SpecAwait and  *)
(* SpecAwaitFair). The steps of the handler leave call as it is: it keeps  *)
(* the last service operation that was called from outside the handler.    *)

\* the store stops answering commands; the socket stays open and no event
\* is emitted, so isConnected keeps its value
Stall ==
  /\ client /\ sock = "ready"
  /\ sock' = "stalled"
  /\ call' = NoCall
  /\ UNCHANGED <<client, isConnected, retryAttempts, metrics, store, now, db, resp, mw, pending, inflight>>

\* an awaited service call settles at once when the service is not usable
\* (no command is sent), and otherwise when the store answers the command:
\* the client is created without a command timeout
Settles == NotUsable \/ sock # "stalled"

PendingFrame == UNCHANGED <<client, sock, isConnected, retryAttempts, now, db, mw, inflight>>

\* the request arrives; the handler calls cacheService.get and awaits it
getPlaylistByIdBegin(u, p) ==
  /\ pending.at = "idle"
  /\ Total(metrics) + 1 < MaxOps
  /\ pending' = [at |-> "get", user |-> u, pid |-> p, doc |-> Missing]
  /\ UNCHANGED <<metrics, store, resp, call>>
  /\ PendingFrame

\* cacheService.get returns: answer from the cache, or go on to the primary store
getPlaylistByIdGot(fg) ==
  /\ pending.at = "get"
  /\ Settles
  /\ \E g \in {get(metrics, store, playlist(pending.pid), fg)} :
       /\ IF Truthy(g.ret)
          THEN /\ IF g.ret.ty # "object"
                  THEN Respond("getPlaylistById", pending.user, pending.pid, 500, Undefined, FALSE, 0)
                  ELSE IF ~CanRead(g.ret.doc, pending.user)
                  THEN Respond("getPlaylistById", pending.user, pending.pid, 403, Undefined, FALSE, 0)
                  ELSE Respond("getPlaylistById", pending.user, pending.pid, 200, g.ret, TRUE, 0)
               /\ pending' = NoPending
          ELSE /\ pending' = [pending EXCEPT !.at = "find"]
               /\ UNCHANGED resp
       /\ metrics' = g.m /\ store' = g.s
  /\ UNCHANGED call
  /\ PendingFrame

\* Playlist.findById returns; the handler calls cacheService.set with the
\* document it has read and awaits it
getPlaylistByIdFound ==
  /\ pending.at = "find"
  /\ IF db[pending.pid] = Missing
     THEN /\ Respond("getPlaylistById", pending.user, pending.pid, 404, Undefined, FALSE, 1)
          /\ pending' = NoPending
     ELSE IF ~CanRead(db[pending.pid], pending.user)
     THEN /\ Respond("getPlaylistById", pending.user, pending.pid, 403, Undefined, FALSE, 1)
          /\ pending' = NoPending
     ELSE /\ pending' = [pending EXCEPT !.at = "set", !.doc = db[pending.pid]]
          /\ UNCHANGED resp
  /\ UNCHANGED <<metrics, store, call>>
  /\ PendingFrame

\* cacheService.set returns; the handler responds with the document it read
getPlaylistByIdStored(fs) ==
  /\ pending.at = "set"
  /\ Settles
  /\ \E w \in {set(metrics, store, playlist(pending.pid), JObj(pending.doc), PlaylistTTL, fs)} :
       /\ metrics' = w.m /\ store' = w.s
  /\ UNCHANGED call
  /\ Respond("getPlaylistById", pending.user, pending.pid, 200, JObj(pending.doc), FALSE, 1)
  /\ pending' = NoPending
  /\ PendingFrame

PlaylistPattern == <<"playlist", ":", "*">>

\* cacheService.invalidate(pattern), called while the reader is suspended
InvalidateAnswered(pattern) == Settles /\ Invalidate(pattern, "ok")

NextAwait ==
  \/ Connect("ok")
  \/ Stall
  \/ Tick
  \/ \E u \in Users, p \in Pids : getPlaylistByIdBegin(u, p)
  \/ \E fg \in Faults : getPlaylistByIdGot(fg)
  \/ getPlaylistByIdFound
  \/ \E fs \in Faults : getPlaylistByIdStored(fs)
  \/ \E p \in Pids, n \in Names : updatePlaylist(db[p].creator, p, n, db[p].isPublic, db[p].collabs)
  \/ InvalidateAnswered(PlaylistPattern)

SpecAwait == Init /\ [][NextAwait]_vars

\* the event loop resumes a handler whose awaited promise has settled
SpecAwaitFair ==
  /\ SpecAwait
  /\ WF_vars(\E fg \in Faults : getPlaylistByIdGot(fg))
  /\ WF_vars(getPlaylistByIdFound)
  /\ WF_vars(\E fs \in Faults : getPlaylistByIdStored(fs))

\* C25 as claimed: a request that awaits a cache operation gets its answer
\* in the end, also when the store never answers the command
C25_CacheCallsReturn == (pending.at # "idle") ~> (pending.at = "idle")

-----------------------------------------------------------------------------
(* The cache management routes (routes/cache.js) and the service           *)
(* operations behind them (specification SpecAdmin). A JSON object is a    *)
(* record; its DOMAIN is the set of its properties.                        *)

\* what client.info('stats') answers: the Redis server's own statistics
Info == "redis-info-stats"

\* getStats: [ret, cmds]; no counter of metrics changes, also in the catch
getStats(f) ==
  IF NotUsable THEN [ret |-> [connected |-> FALSE], cmds |-> 0]
  ELSE IF f # "ok" THEN [ret |-> [connected |-> FALSE, error |-> "message"], cmds |-> 1]
  ELSE [ret |-> [connected |-> TRUE, stats |-> Info], cmds |-> 1]

\* Math.round(hits / (hits + misses) * 100)
HitRate(m) ==
  IF m.hits + m.misses > 0
  THEN (200 * m.hits + (m.hits + m.misses)) \div (2 * (m.hits + m.misses))
  ELSE 0

\* getMetrics: totalResponseTime and requestCount are never written
getMetrics ==
  [hits |-> metrics.hits, misses |-> metrics.misses, sets |-> metrics.sets,
   deletes |-> metrics.deletes, errors |-> metrics.errors,
   totalResponseTime |-> 0, requestCount |-> 0, averageResponseTime |-> 0,
   hitRate |-> HitRate(metrics), connected |-> isConnected]

\* { ...a, ...b }: the properties of b replace those of a
Spread(a, b) == [k \in DOMAIN a \cup DOMAIN b |-> IF k \in DOMAIN b THEN b[k] ELSE a[k]]

Envs == {"production", "development"}

AdminFrame == UNCHANGED <<client, sock, isConnected, retryAttempts, metrics, now, db, mw, pending, inflight>>

\* the response of a cache management route, served under NODE_ENV = env
Answer(handler, u, env, status, data) ==
  resp' = [handler |-> handler, user |-> u, pid |-> "", status |-> status, data |-> data,
           cached |-> FALSE, dbReads |-> 0, seq |-> 1 - resp.seq, env |-> env]

GetMetrics ==
  /\ call' = [NoCall EXCEPT !.op = "getMetrics", !.ret = getMetrics]
  /\ UNCHANGED <<store, resp>>
  /\ AdminFrame

\* GET /stats
statsRoute(u, env, f) ==
  /\ \E stats \in {getStats(f)} :
       /\ Answer("stats", u, env, 200, stats.ret)
       /\ call' = [NoCall EXCEPT !.op = "getStats", !.f = f, !.cmds = stats.cmds, !.ret = stats.ret]
  /\ UNCHANGED store
  /\ AdminFrame

\* a route that does nothing in production
RefusedNowhere(env) == FALSE

Refused(env) == env = "production"

\* DELETE /flush
flushRoute(u, env, f) ==
  /\ IF Refused(env)
     THEN /\ Answer("flush", u, env, 403, [success |-> FALSE])
          /\ call' = NoCall
          /\ UNCHANGED store
     ELSE \E success \in {flush(metrics, store, f)} :
            /\ Answer("flush", u, env, IF success.ret = JBool(TRUE) THEN 200 ELSE 500,
                      [success |-> success.ret = JBool(TRUE)])
            /\ call' = [NoCall EXCEPT !.op = "flush", !.f = f, !.cmds = success.cmds, !.ret = success.ret]
            /\ store' = success.s
  /\ AdminFrame

\* GET /health: isConnected is read first, then the statistics are spread
\* over the health data
healthRoute(u, env, f) ==
  /\ \E stats \in {getStats(f)} :
       LET healthData == Spread([status |-> IF isConnected THEN "healthy" ELSE "unhealthy",
                                 connected |-> isConnected,
                                 lastCheck |-> now],
                                stats.ret)
       IN /\ Answer("health", u, env, IF isConnected THEN 200 ELSE 503, healthData)
          /\ call' = [NoCall EXCEPT !.op = "getStats", !.f = f, !.cmds = stats.cmds, !.ret = stats.ret]
  /\ UNCHANGED store
  /\ AdminFrame

NextAdmin ==
  \/ \E o \in {"connectFails", "pingFails", "ok"} : Connect(o)
  \/ OnReady
  \/ \E lost \in BOOLEAN : OnError(lost)
  \/ Disconnect
  \/ \E k \in SvcKeys, f \in Faults : Set(k, JNum(0), SvcTTL, f)
  \/ \E k \in SvcKeys, f \in Faults : Get(k, f)
  \/ GetMetrics
  \/ \E u \in Users, env \in Envs, f \in Faults : statsRoute(u, env, f)
  \/ \E u \in Users, env \in Envs, f \in Faults : flushRoute(u, env, f)
  \/ \E u \in Users, env \in Envs, f \in Faults : healthRoute(u, env, f)

SpecAdmin == Init /\ [][NextAdmin]_vars

\* the store cannot be reached by the command the step sends
Unreachable == sock # "ready" \/ call'.f # "ok"

\* C26 as claimed: the health response says connected: false with a non-200
\* status whenever the store is unreachable, and its connected field, its
\* status field and its HTTP status always agree
C26_HealthIsAccurate ==
  [][Handled("health") =>
       /\ Unreachable => (resp'.data.connected = FALSE /\ resp'.status # 200)
       /\ resp'.data.connected = (resp'.data.status = "healthy")
       /\ (resp'.data.status = "healthy") = (resp'.status = 200)
       /\ (resp'.data.status = "unhealthy") = (resp'.status = 503)]_vars

\* C27: in production DELETE /flush answers 403, cacheService.flush is not
\* called (no command reaches the store) and every entry stays as it was
C27_FlushRefusedInProduction ==
  [][(Handled("flush") /\ resp'.env = "production")
       => /\ resp'.status = 403
          /\ call'.op # "flush" /\ call'.cmds = 0
          /\ store' = store]_vars

\* a refused flush of a connected cache that holds an entry
C27_Witness ==
  /\ resp.handler = "flush" /\ resp.env = "production" /\ resp.status = 403
  /\ isConnected /\ client /\ sock = "ready"
  /\ \E k \in Keys : Present(store, k)

StatsFields == {"connected", "hits", "misses", "sets", "deletes", "errors", "hitRate"}

\* C28 as claimed: GET /stats answers connected, the five counters and the
\* hit rate; with the cache disconnected it answers connected: false and no
\* command is sent to the store
C28_StatsSnapshot ==
  [][Handled("stats") =>
       /\ StatsFields \subseteq DOMAIN resp'.data
       /\ (~isConnected \/ ~client) => (resp'.data.connected = FALSE /\ call'.cmds = 0)]_vars

-----------------------------------------------------------------------------
(* Expiry of what the service writes (specification SpecTTL) *)

SetOutcomes == {"dropped", "syntaxError"}

SetWithExpiry(k, v, expireAt, f, o) ==
  /\ Total(metrics) < MaxOps
  /\ Called("setWithExpiry", k, <<>>, v, setWithExpiry(metrics, store, k, v, expireAt, f, o), f,
            Present(store, k), f # "ok" \/ o = "syntaxError" \/ v = Circular)

NextTTL ==
  \/ Connect("ok")
  \/ Tick
  \/ \E k \in SvcKeys, v \in {Null, JNum(0), Circular}, ttl \in SvcTTLs, f \in Faults : Set(k, v, ttl, f)
  \/ \E k \in SvcKeys, v \in {Null, JNum(0), Circular}, f \in Faults, o \in SetOutcomes :
       SetWithExpiry(k, v, now + ShortTTL, f, o)
  \/ \E k \in SvcKeys, f \in Faults : Get(k, f)
  \/ \E k \in SvcKeys, f \in Faults : Del(k, f)

SpecTTL == Init /\ [][NextTTL]_vars

\* C29 as claimed: an entry written through set or setWithExpiry has a
\* finite expiry in the future, an entry whose expiry has passed is not in
\* the store any more, and get of a key that is not in the store returns
\* null.
C29_EntriesExpire ==
  /\ [][(call'.op \in {"set", "setWithExpiry"} /\ call'.ret = JBool(TRUE))
          => (store'[call'.key].exp > now /\ store'[call'.key].exp <= now + SvcTTL)]_vars
  /\ [](\A k \in Keys : Present(store, k) => store[k].exp > now)
  /\ [][(call'.op = "get" /\ ~Present(store, call'.key)) => call'.ret = Null]_vars

\* the reader of playlist p sets what it has read
Stored(p) == pending.at = "set" /\ pending.pid = p /\ pending'.at = "idle"

\* C30: the set of a reader that has read the document before a write
\* stores that document also when the write and an invalidation of the key
\* have happened in between; the entry it leaves expires no later than
\* PlaylistTTL after the set and is gone once that time has passed, and an
\* invalidation of the key that reaches the store removes it.
C30_StaleEntryIsBounded ==
  /\ [][\A p \in Pids :
          (Stored(p) /\ isConnected /\ client /\ metrics'.sets = metrics.sets + 1)
            => store'[playlist(p)] = [text |-> Stringify(JObj(pending.doc)), exp |-> now + PlaylistTTL]]_vars
  /\ [](\A p \in Pids : Present(store, playlist(p))
          => (store[playlist(p)].exp > now /\ store[playlist(p)].exp <= now + PlaylistTTL))
  /\ [][\A p \in Pids :
          (pending' = pending /\ call'.op = "invalidate" /\ call'.pat = PlaylistPattern
             /\ call'.cmds > 0 /\ ~call'.raised)
            => ~Present(store', playlist(p))]_vars

\* the race has happened: the reader has answered with the document as it
\* was before the write and has left it in the cache, the last operation
\* outside the reader is the invalidation that followed the write (the write
\* itself resets call), and it found nothing to delete
C30_Witness ==
  /\ pending.at = "idle"
  /\ resp.handler = "getPlaylistById" /\ resp.status = 200 /\ ~resp.cached
  /\ resp.data # JObj(db[resp.pid])
  /\ Present(store, playlist(resp.pid))
  /\ store[playlist(resp.pid)].text = Stringify(resp.data)
  /\ call.op = "invalidate" /\ call.pat = PlaylistPattern /\ call.cmds > 0 /\ call.ret = JNum(0)

-----------------------------------------------------------------------------
(* get and set of concurrent callers (specification SpecConc): a call is   *)
(* suspended at `await this.client...` and its continuation, which updates *)
(* the counter, runs to its end when the store has answered.               *)

\* the counters as the call saw them when it was issued
CountersAtIssue(seen, current) == seen

\* `this.metrics.hits++` is evaluated in the continuation: it reads the
\* counters as they are when the continuation runs
CountersAtResume(seen, current) == current

ConcValues == {JNum(0), JObj(Doc("p1", "Road Trip", "u1", {}, FALSE))}

\* the guard has passed and the command is sent
Issue(c, op, k, v) ==
  /\ ~NotUsable
  /\ ~inflight.done.reset
  /\ inflight.calls[c] = Idle
  /\ Total(metrics) + Cardinality({d \in Callers : inflight.calls[d] # Idle}) < MaxOps
  /\ inflight' = [inflight EXCEPT
       !.calls[c] = [op |-> op, key |-> k, arg |-> v, seen |-> metrics],
       !.done.overlap = @ \/ \E d \in Callers : inflight.calls[d] # Idle]
  /\ call' = NoCall
  /\ UNCHANGED <<client, sock, isConnected, retryAttempts, metrics, store, now, db, resp, mw, pending>>

\* the store has answered (or rejected) the command; the rest of the try
\* block or the catch block runs
Complete(c, f) ==
  /\ inflight.calls[c] # Idle
  /\ LET it == inflight.calls[c]
         m == CountersAtResume(it.seen, metrics)
         t == IF it.op = "get" THEN tryGet(m, store, it.key, f)
              ELSE trySet(m, store, it.key, it.arg, SvcTTL, f)
     IN \E r \in {IF t.thrown THEN Caught(t, IF it.op = "get" THEN Null ELSE JBool(FALSE)) ELSE t} :
          /\ metrics' = r.m
          /\ store' = r.s
          /\ call' = [NoCall EXCEPT !.op = it.op, !.key = it.key, !.arg = it.arg, !.f = f,
                                    !.ret = r.ret, !.was = Present(store, it.key)]
          /\ inflight' = [inflight EXCEPT
               !.calls[c] = Idle,
               !.done.hits = @ + (IF it.op = "get" /\ r.ret # Null THEN 1 ELSE 0),
               !.done.misses = @ + (IF it.op = "get" /\ f = "ok" /\ ~Present(store, it.key) THEN 1 ELSE 0),
               !.done.sets = @ + (IF it.op = "set" /\ r.ret = JBool(TRUE) THEN 1 ELSE 0)]
  /\ UNCHANGED <<client, sock, isConnected, retryAttempts, now, db, resp, mw, pending>>

\* resetMetrics()
ResetMetrics ==
  /\ inflight.done.hits + inflight.done.misses + inflight.done.sets > 0
  /\ metrics' = ZeroMetrics
  /\ inflight' = [inflight EXCEPT !.done.reset = TRUE]
  /\ call' = NoCall
  /\ UNCHANGED <<client, sock, isConnected, retryAttempts, store, now, db, resp, mw, pending>>

NextConc ==
  \/ Connect("ok")
  \/ \E lost \in BOOLEAN : OnError(lost)
  \/ \E c \in Callers, k \in SvcKeys : Issue(c, "get", k, Undefined)
  \/ \E c \in Callers, k \in SvcKeys, v \in ConcValues : Issue(c, "set", k, v)
  \/ \E c \in Callers, f \in Faults : Complete(c, f)
  \/ ResetMetrics

SpecConc == Init /\ [][NextConc]_vars

\* C31: as long as resetMetrics has not run, hits, misses and sets are the
\* numbers of gets that returned a value, of gets that found no key and of
\* sets that succeeded, however the calls of the callers interleave.
C31_NoLostCounterUpdate ==
  ~inflight.done.reset =>
     /\ metrics.hits = inflight.done.hits
     /\ metrics.misses = inflight.done.misses
     /\ metrics.sets = inflight.done.sets

\* two calls were in flight together and both have completed: the second
\* was issued before the first one's counter update
C31_Witness ==
  /\ ~inflight.done.reset /\ inflight.done.overlap
  /\ \A c \in Callers : inflight.calls[c] = Idle
  /\ call.op \in {"get", "set"}
  /\ inflight.done.hits >= 1 /\ inflight.done.sets >= 1

-----------------------------------------------------------------------------
(* Who may read a playlist, and the handlers that change it                *)
(* (specification SpecAccess).                                             *)

\* DELETE /:id/collaborators/:userId
removeCollaborator(u, p, x) ==
  /\ IF db[p] = Missing
     THEN /\ Respond("removeCollaborator", u, p, 404, Undefined, FALSE, 1)
          /\ UNCHANGED db
     ELSE IF db[p].creator # u
     THEN /\ Respond("removeCollaborator", u, p, 403, Undefined, FALSE, 1)
          /\ UNCHANGED db
     ELSE /\ db' = [db EXCEPT ![p].collabs = @ \ {x}]
          /\ Respond("removeCollaborator", u, p, 200, Undefined, FALSE, 1)
  /\ call' = NoCall
  /\ UNCHANGED <<metrics, store>>
  /\ AppFrame

NextAccess ==
  \/ Connect("ok")
  \/ Tick
  \/ \E u \in Users, p \in Pids, fg \in Faults, fs \in Faults : getPlaylistById(u, p, fg, fs)
  \/ \E u \in Users, p \in Pids, pub \in BOOLEAN, cs \in SUBSET (Users \ {"u1"}) :
       updatePlaylist(u, p, db[p].name, pub, cs)
  \/ \E u \in Users, p \in Pids, x \in Users : removeCollaborator(u, p, x)
  \/ \E u \in Users, p \in Pids : deletePlaylist(u, p)

SpecAccess == Init /\ [][NextAccess]_vars

\* C32 as claimed: getPlaylistById answers 200 only to a user who may read
\* the playlist as the primary store has it now, also when the answer comes
\* from the cache
C32_AccessFollowsPrimary ==
  [][(Handled("getPlaylistById") /\ resp'.status = 200)
       => (db[resp'.pid] # Missing /\ CanRead(db[resp'.pid], resp'.user))]_vars

-----------------------------------------------------------------------------
(* isConnected and the socket (specification Spec) *)

\* C33 as claimed: isConnected is true exactly when the client's connection
\* is ready
C33_IsConnectedTracksSocket == isConnected <=> (client /\ sock = "ready")

-----------------------------------------------------------------------------
(* createPlaylist and the list of its caller (specification SpecCreate).   *)
(* The list a user has in the cache is written by a set of what            *)
(* getPlaylists would store for that user at that moment.                  *)

NextCreate ==
  \/ Connect("ok")
  \/ \E u \in Users : Set(userPlaylists(u), JArr(Visible(u)), PlaylistsTTL, "ok")
  \/ \E u \in Users, fg \in Faults, fs \in Faults : getPlaylists(u, fg, fs)
  \/ \E u \in Users, pub \in BOOLEAN, saved \in BOOLEAN, fi \in {"ok", "keys", "del"} :
       createPlaylist(u, "Road Trip", pub, saved, fi)
  \/ \E u \in Users, p \in Pids : deletePlaylist(u, p)

SpecCreate == Init /\ [][NextCreate]_vars

-----------------------------------------------------------------------------
(* How often invalidateCache invalidates (specification SpecMw) *)

\* C35 as claimed: a 2xx response sent through invalidateCache invalidates
\* each configured pattern exactly once
C35_InvalidatesOncePerPattern ==
  [][(Passed("invalidate") /\ mw'.status >= 200 /\ mw'.status < 300)
       => Cardinality(InvalidateEvents(mw'.log)) = Len(PlaylistPatterns)]_vars

-----------------------------------------------------------------------------
(* cacheMiddleware with a key generator or a replay that throws            *)
(* (specification SpecMwKey).                                              *)

NextMwKey ==
  \/ Connect("ok")
  \/ Tick
  \/ \E u \in Users, path \in Paths, fg \in Faults, fs \in Faults,
        keyGenerator \in {"default", "throws"}, replay \in {"ok", "throws"} :
     \E h \in Outcomes(u) :
       cacheMiddlewareWith(Auth(u, "GET", path, <<>>, ""), keyGenerator, h, fg, fs, replay)

SpecMwKey == Init /\ [][NextMwKey]_vars

\* C36 as claimed: for every request through cacheMiddleware either the
\* response is sent from the cache and next() is not called, or next() is
\* called exactly once and the response is the handler's
C36_ExactlyOneOfCacheOrNext ==
  [][Passed("cache") =>
       \/ (mw'.fromCache /\ mw'.nextCalls = 0)
       \/ (~mw'.fromCache /\ mw'.nextCalls = 1)]_vars

-----------------------------------------------------------------------------
(* Start-up: connectDB() awaits connect() (specification SpecStart).       *)

\* a catch block of connect() that throws the error on
connectRethrows(o) == o # "ok"

\* connect()'s catch block logs, sets isConnected = false and does not throw
connectThrows(o) == FALSE

\* connectDB() after mongoose.connect has succeeded: await
\* cacheService.connect(), then createIndexes() and the listeners; an
\* exception on the way ends in process.exit(1)
connectDB(o) ==
  /\ Connecting(o)
  /\ call' = [NoCall EXCEPT !.op = "connectDB", !.f = o, !.thrown = connectThrows(o),
                            !.ret = IF connectThrows(o) THEN JStr("exit") ELSE JStr("started")]

NextStart ==
  \/ \E o \in {"createFails", "connectFails", "pingFails", "ok"} : connectDB(o)
  \/ OnReady
  \/ \E lost \in BOOLEAN : OnError(lost)
  \/ Disconnect
  \/ Tick
  \/ \E k \in SvcKeys, f \in Faults : Get(k, f)
  \/ \E k \in SvcKeys : Set(k, JObj(Doc("p1", "Road Trip", "u1", {}, FALSE)), SvcTTL, "ok")

SpecStart == Init /\ [][NextStart]_vars

\* C37: connect() never throws to connectDB: whatever fails while creating
\* the client, connecting or pinging, the call returns normally with
\* isConnected = false, and start-up goes on without the cache
C37_ConnectNeverThrows ==
  [][call'.op = "connectDB" /\ ~client =>
       /\ ~call'.thrown
       /\ call'.ret = JStr("started")
       /\ (call'.f # "ok" => ~isConnected')]_vars

\* a start-up that went on although the ping failed on an open socket
C37_Witness ==
  /\ call.op = "connectDB" /\ call.f = "pingFails"
  /\ ~call.thrown /\ call.ret = JStr("started")
  /\ client /\ sock = "ready" /\ ~isConnected

====
